---- MODULE Spec2Model ----
(***************************************************************************)
(* Symptom red-flag detection and urgency classification of the AI         *)
(* Wellness Assistant: Validators.sanitize_symptom_input and               *)
(* SymptomDetector (wellness_assistant/utils/validators.py,                *)
(* wellness_assistant/core/symptoms.py).                                   *)
(*                                                                         *)
(* Texts are TLA+ strings; a character is a string of length 1.  The       *)
(* pictographs of the source's message texts are left out of the string    *)
(* literals (the module is ASCII) and its bullet sign is written "*".      *)
(***************************************************************************)
EXTENDS Naturals, Sequences, FiniteSets, TLC

(***************************************************************************)
(* Bounds of the model.                                                    *)
(***************************************************************************)
\* an input text is a concatenation of at most MaxFrags fragments
MaxFrags == 3
\* a match list handed directly to _assess_urgency has at most MaxFlags matches
MaxFlags == 3
\* a long input text has a body within MaxPad characters of the length limit,
\* and at most MaxPad padding characters at each end
MaxPad == 2
\* the text of a request to a caller is made of at most MaxRequestFrags fragments
MaxRequestFrags == 2
\* the web server serves NumThreads requests at once
NumThreads == 2
\* one instance serves at most MaxCalls calls one after another
MaxCalls == 3
\* _generate_response is given match lists of at most MaxRenderFlags records
MaxRenderFlags == 4
\* at most MaxTracked track_habit calls are made on one store
MaxTracked == 2
\* the history queries look back at most MaxDays days
MaxDays == 7

(***************************************************************************)
(* Characters and the string primitives of Python and of re that the       *)
(* sanitizer and the detector use.                                         *)
(***************************************************************************)
LowerLetters == "abcdefghijklmnopqrstuvwxyz"
UpperLetters == "ABCDEFGHIJKLMNOPQRSTUVWXYZ"
Digits == "0123456789"

CharAt(s, i) == SubSeq(s, i, i)
CharsOf(s) == {CharAt(s, i) : i \in 1..Len(s)}

\* \s of re, and the characters str.strip() removes
SpaceChars == {" ", "\t", "\n"}
\* \w of re
WordChars == CharsOf(LowerLetters) \cup CharsOf(UpperLetters) \cup CharsOf(Digits) \cup {"_"}
\* the characters the class [^\w\s\-.,!?] does not match, i.e. those kept
KeptChars == WordChars \cup SpaceChars \cup {"-", ".", ",", "!", "?"}

IsSpace(c) == c \in SpaceChars
IsKept(c) == c \in KeptChars

\* str.lower() of one capital letter
LowerOf == [i \in 1..Len(UpperLetters) |-> CharAt(LowerLetters, i)]
UpperIndex == [c \in CharsOf(UpperLetters) |-> CHOOSE i \in 1..Len(UpperLetters) : CharAt(UpperLetters, i) = c]

\* str.lower() of one character
LowerChar(c) == IF c \in DOMAIN UpperIndex THEN LowerOf[UpperIndex[c]] ELSE c

\* the positions of s that hold no whitespace
NonSpaceAt(s) == {i \in 1..Len(s) : ~IsSpace(CharAt(s, i))}
First(S) == CHOOSE i \in S : \A j \in S : i <= j
Last(S) == CHOOSE i \in S : \A j \in S : j <= i

LStrip(s) == IF NonSpaceAt(s) = {} THEN "" ELSE SubSeq(s, First(NonSpaceAt(s)), Len(s))

RStrip(s) == IF NonSpaceAt(s) = {} THEN "" ELSE SubSeq(s, 1, Last(NonSpaceAt(s)))

\* str.strip()
Strip(s) == RStrip(LStrip(s))

LowerAt(s, i) == LowerChar(CharAt(s, i))

\* a whitespace character that starts a run becomes one space, the rest of the
\* run becomes nothing, any other character stays
CollapseAt(s, i) ==
  IF ~IsSpace(CharAt(s, i)) THEN CharAt(s, i)
  ELSE IF i > 1 /\ IsSpace(CharAt(s, i - 1)) THEN ""
  ELSE " "

RemoveAt(s, i) == IF IsKept(CharAt(s, i)) THEN CharAt(s, i) ELSE ""

\* what the rewriting `sub` puts in place of the character at position i of s
ImageAt(sub, s, i) ==
  CASE sub = "lower" -> LowerAt(s, i)
    [] sub = "collapse" -> CollapseAt(s, i)
    [] sub = "remove" -> RemoveAt(s, i)

RECURSIVE MapChars(_, _, _, _)
\* the concatenation of ImageAt(sub, s, i) for i = lo..hi: what a
\* character-by-character rewriting of s produces (computed by halves, to keep
\* the nesting shallow)
MapChars(sub, s, lo, hi) ==
  IF lo > hi THEN ""
  ELSE IF lo = hi THEN ImageAt(sub, s, lo)
  ELSE LET mid == (lo + hi) \div 2
       IN MapChars(sub, s, lo, mid) \o MapChars(sub, s, mid + 1, hi)

\* str.lower()
Lower(s) == MapChars("lower", s, 1, Len(s))

\* faulty variant: whitespace runs are kept as they are
KeepWhitespace(s) == s

\* re.sub(r'\s+', ' ', s): every maximal run of whitespace becomes one space
CollapseWhitespace(s) == MapChars("collapse", s, 1, Len(s))

\* re.sub(r'[^\w\s\-.,!?]', '', s): every character outside the class is deleted
RemoveHarmful(s) == MapChars("remove", s, 1, Len(s))

\* Python's `pattern in text`
Contains(text, pattern) ==
  \E i \in 1..(Len(text) + 1) :
    /\ i + Len(pattern) - 1 <= Len(text)
    /\ SubSeq(text, i, i + Len(pattern) - 1) = pattern

(***************************************************************************)
(* Validators.sanitize_symptom_input                                       *)
(***************************************************************************)
MinSymptomLen == 3
MaxSymptomLen == 500

Ok(v) == [ok |-> TRUE, value |-> v]
Raise(msg) == [ok |-> FALSE, error |-> msg]

\* the text after the two substitutions, before the length checks
CleanSymptom(symptom) == RemoveHarmful(CollapseWhitespace(Strip(symptom)))

\* faulty variant: <= in place of < in the first length check
CheckAndLowerInclusive(symptom) ==
  IF Len(symptom) <= MinSymptomLen
    THEN Raise("Symptom description must be at least 3 characters")
  ELSE IF Len(symptom) > MaxSymptomLen
    THEN Raise("Symptom description must be less than 500 characters")
  ELSE Ok(Lower(symptom))

\* faulty variant: >= in place of > in the second length check
CheckAndLowerBelowLimit(symptom) ==
  IF Len(symptom) < MinSymptomLen
    THEN Raise("Symptom description must be at least 3 characters")
  ELSE IF Len(symptom) >= MaxSymptomLen
    THEN Raise("Symptom description must be less than 500 characters")
  ELSE Ok(Lower(symptom))

\* the length checks (ValidationError) and the final lower()
CheckAndLower(symptom) ==
  IF Len(symptom) < MinSymptomLen
    THEN Raise("Symptom description must be at least 3 characters")
  ELSE IF Len(symptom) > MaxSymptomLen
    THEN Raise("Symptom description must be less than 500 characters")
  ELSE Ok(Lower(symptom))

sanitize_symptom_input(symptom) == CheckAndLower(CleanSymptom(symptom))

(***************************************************************************)
(* SymptomDetector                                                         *)
(***************************************************************************)
\* red_flag_categories of _detect_red_flags, in the dict's declaration order
red_flag_categories ==
  << [category |-> "chest",
      patterns |-> <<"chest pain", "chest pressure", "chest tightness", "heart pain">>],
     [category |-> "breathing",
      patterns |-> <<"shortness of breath", "difficulty breathing", "can't breathe", "trouble breathing">>],
     [category |-> "headache",
      patterns |-> <<"sudden severe headache", "worst headache", "severe headache">>],
     [category |-> "vision",
      patterns |-> <<"vision loss", "loss of vision", "sudden vision changes", "blind", "can't see">>],
     [category |-> "weakness",
      patterns |-> <<"weakness on one side", "facial drooping", "speech problems", "slurred speech">>],
     [category |-> "consciousness",
      patterns |-> <<"loss of consciousness", "fainting", "passed out", "unconscious">>],
     [category |-> "blood",
      patterns |-> <<"blood in stool", "blood in urine", "coughing blood", "vomiting blood">>],
     [category |-> "fever",
      patterns |-> <<"high fever", "fever over 103", "burning up">>],
     [category |-> "allergic",
      patterns |-> <<"severe allergic reaction", "anaphylaxis", "swelling face", "difficulty swallowing">>] >>

concerning_patterns ==
  << "severe pain", "extreme pain", "unbearable pain",
     "sudden onset", "came on suddenly", "started suddenly",
     "getting worse", "worsening", "worse than ever" >>

\* faulty variant: the scan of a pattern list stops at its first hit
FlagsOfFirstHit(category, patterns, severity, description_lower) ==
  LET hits == {i \in 1..Len(patterns) : Contains(description_lower, patterns[i])}
  IN IF hits = {} THEN << >>
     ELSE << [category |-> category,
              pattern |-> patterns[CHOOSE i \in hits : \A j \in hits : i <= j],
              severity |-> severity] >>

\* the inner loop: one record, in list order, for every pattern found in the text
FlagsOf(category, patterns, severity, description_lower) ==
  LET all == [i \in 1..Len(patterns) |->
                [category |-> category, pattern |-> patterns[i], severity |-> severity]]
      found(flag) == Contains(description_lower, flag.pattern)
  IN SelectSeq(all, found)

RECURSIVE CategoryFlags(_, _)
\* the outer loop over the first n categories
CategoryFlags(n, description_lower) ==
  IF n = 0 THEN << >>
  ELSE CategoryFlags(n - 1, description_lower)
         \o FlagsOf(red_flag_categories[n].category, red_flag_categories[n].patterns,
                    "high", description_lower)

_detect_red_flags(description) ==
  LET description_lower == Lower(description)
  IN CategoryFlags(Len(red_flag_categories), description_lower)
       \o FlagsOf("concerning", concerning_patterns, "medium", description_lower)

emergency_categories == {"chest", "breathing", "consciousness", "allergic"}
\* faulty variant: the list without its last entry
urgent_categories_without_fever == {"headache", "vision", "weakness", "blood"}
urgent_categories == {"headache", "vision", "weakness", "blood", "fever"}

\* faulty variant: > in place of >=
MoreThanThreeFlags(red_flags) == Len(red_flags) > 3
\* faulty variant: 2 in place of 3
AtLeastTwoFlags(red_flags) == Len(red_flags) >= 2
\* len(red_flags) >= 3
MultipleConcerning(red_flags) == Len(red_flags) >= 3

\* faulty variant: the two loops merged into one, so that the first flag of a named
\* category decides
assess_urgency_one_loop(red_flags) ==
  LET named == {i \in 1..Len(red_flags) :
                  red_flags[i].category \in emergency_categories \cup urgent_categories}
      first == CHOOSE i \in named : \A j \in named : i <= j
  IN IF red_flags = << >> THEN "low"
     ELSE IF named # {}
       THEN (IF red_flags[first].category \in emergency_categories THEN "emergency" ELSE "urgent")
     ELSE IF MultipleConcerning(red_flags) THEN "urgent"
     ELSE "moderate"

\* faulty variant: the `if not red_flags` test left out
\* faulty variant: the last match alone decides
assess_urgency_last_flag(red_flags) ==
  IF red_flags = << >> THEN "low"
  ELSE IF red_flags[Len(red_flags)].category \in emergency_categories THEN "emergency"
  ELSE IF red_flags[Len(red_flags)].category \in urgent_categories THEN "urgent"
  ELSE IF MultipleConcerning(red_flags) THEN "urgent"
  ELSE "moderate"

assess_urgency_no_empty_test(red_flags) ==
  IF \E i \in 1..Len(red_flags) : red_flags[i].category \in emergency_categories
    THEN "emergency"
  ELSE IF \E i \in 1..Len(red_flags) : red_flags[i].category \in urgent_categories
    THEN "urgent"
  ELSE IF MultipleConcerning(red_flags) THEN "urgent"
  ELSE "moderate"

_assess_urgency(red_flags) ==
  IF red_flags = << >> THEN "low"
  ELSE IF \E i \in 1..Len(red_flags) : red_flags[i].category \in emergency_categories
    THEN "emergency"
  ELSE IF \E i \in 1..Len(red_flags) : red_flags[i].category \in urgent_categories
    THEN "urgent"
  ELSE IF MultipleConcerning(red_flags) THEN "urgent"
  ELSE "moderate"

\* Config.RED_FLAG_SYMPTOMS, which __init__ keeps as self.red_flag_symptoms
RED_FLAG_SYMPTOMS ==
  << "chest pain", "chest pressure", "chest tightness",
     "shortness of breath", "difficulty breathing", "can't breathe",
     "sudden severe headache", "severe headache",
     "vision loss", "loss of vision", "sudden vision changes",
     "weakness on one side", "facial drooping", "speech problems",
     "severe abdominal pain", "severe stomach pain",
     "blood in stool", "blood in urine", "coughing blood",
     "high fever", "fever over 103", "sudden confusion",
     "severe allergic reaction", "difficulty swallowing",
     "loss of consciousness", "fainting", "seizure" >>

\* self.emergency_advice of __init__
emergency_advice ==
  [ chest |-> "URGENT: Chest pain can be a sign of a heart attack. Call emergency services (911) immediately.",
    breathing |-> "URGENT: Difficulty breathing requires immediate medical attention. Call 911.",
    headache |-> "URGENT: Sudden severe headache may indicate stroke or aneurysm. Seek emergency care.",
    vision |-> "URGENT: Sudden vision loss requires immediate medical attention.",
    weakness |-> "URGENT: Sudden weakness may indicate stroke. Call 911 immediately.",
    consciousness |-> "URGENT: Loss of consciousness requires emergency medical care.",
    blood |-> "Blood in stool, urine, or coughing blood requires immediate medical evaluation.",
    fever |-> "High fever (over 103F/39.4C) requires medical attention.",
    allergic |-> "URGENT: Severe allergic reactions can be life-threatening. Call 911." ]

MEDICAL_DISCLAIMER ==
  "IMPORTANT DISCLAIMER: This advice is for general wellness purposes only. "
    \o "It is not a substitute for professional medical advice, diagnosis, or treatment. "
    \o "Always consult with a qualified healthcare provider for medical concerns."

\* faulty variant: no break, so that the advice of the last such flag is kept
AdviceOfLastFlag(advice, red_flags) ==
  LET hits == {i \in 1..Len(red_flags) : red_flags[i].category \in DOMAIN advice}
  IN IF hits = {} THEN << >>
     ELSE << advice[red_flags[CHOOSE i \in hits : \A j \in hits : j <= i].category] >>

\* the loop with break over the map `advice` (self.emergency_advice): the advice
\* of the first flag whose category has an entry
AdviceFrom(advice, red_flags) ==
  LET hits == {i \in 1..Len(red_flags) : red_flags[i].category \in DOMAIN advice}
  IN IF hits = {} THEN << >>
     ELSE << advice[red_flags[CHOOSE i \in hits : \A j \in hits : i <= j].category] >>

\* ... for an instance as __init__ leaves it
SpecificAdvice(red_flags) == AdviceFrom(emergency_advice, red_flags)

\* the urgency-specific warnings, for an instance whose map is `advice`
UrgencyLinesWith(advice, red_flags, urgency) ==
  IF urgency = "emergency" THEN
    << "MEDICAL EMERGENCY DETECTED",
       "This appears to be a medical emergency. Call 911 or emergency services IMMEDIATELY." >>
      \o AdviceFrom(advice, red_flags)
  ELSE IF urgency = "urgent" THEN
    << "URGENT MEDICAL ATTENTION NEEDED",
       "These symptoms require prompt medical evaluation. Contact your doctor or visit urgent care immediately." >>
  ELSE IF urgency = "moderate" THEN
    << "Medical Consultation Recommended",
       "Consider scheduling an appointment with your healthcare provider to discuss these symptoms." >>
  ELSE
    << "General Wellness Information",
       "While these symptoms may not be immediately concerning, monitor them and consult a healthcare professional if they persist or worsen." >>

UrgencyLines(red_flags, urgency) == UrgencyLinesWith(emergency_advice, red_flags, urgency)

\* faulty variant: every match is listed
SummaryLinesAll(red_flags) ==
  IF red_flags = << >> THEN << >>
  ELSE << "\nDetected concerning symptoms:" >>
         \o [i \in 1..Len(red_flags) |-> "* " \o red_flags[i].pattern]

\* red_flags[:3], one bullet line each, under the heading
SummaryLines(red_flags) ==
  IF red_flags = << >> THEN << >>
  ELSE << "\nDetected concerning symptoms:" >>
         \o [i \in 1..(IF Len(red_flags) < 3 THEN Len(red_flags) ELSE 3) |->
               "* " \o red_flags[i].pattern]

DisclaimerLines == << "\n" \o MEDICAL_DISCLAIMER >>

\* faulty variant: the tips are left out for an emergency only
SelfCareLinesUnlessEmergency(urgency) ==
  IF urgency # "emergency"
    THEN << "\nGeneral self-care tips:", "* Stay hydrated", "* Get adequate rest",
            "* Monitor symptoms", "* Keep a symptom diary" >>
    ELSE << >>

SelfCareLines(urgency) ==
  IF urgency \in {"low", "moderate"}
    THEN << "\nGeneral self-care tips:", "* Stay hydrated", "* Get adequate rest",
            "* Monitor symptoms", "* Keep a symptom diary" >>
    ELSE << >>

\* faulty variant: the self-care tips are put before the disclaimer
ResponseLinesTipsFirst(description, red_flags, urgency) ==
  UrgencyLines(red_flags, urgency) \o SummaryLines(red_flags)
    \o SelfCareLines(urgency) \o DisclaimerLines

\* the list `response` of _generate_response before it is joined
ResponseLines(description, red_flags, urgency) ==
  UrgencyLines(red_flags, urgency) \o SummaryLines(red_flags)
    \o DisclaimerLines \o SelfCareLines(urgency)

RECURSIVE Join(_, _)
\* sep.join(lines)
Join(lines, sep) ==
  IF lines = << >> THEN ""
  ELSE IF Len(lines) = 1 THEN lines[1]
  ELSE lines[1] \o sep \o Join(Tail(lines), sep)

_generate_response(description, red_flags, urgency) ==
  Join(ResponseLines(description, red_flags, urgency), "\n")

\* faulty variant: only "emergency" counts
RequiresOnlyEmergency(urgency) == urgency = "emergency"
\* urgency in ["emergency", "urgent"]
RequiresMedicalAttention(urgency) == urgency \in {"emergency", "urgent"}

\* the try body after a successful sanitization (the timestamp is left out)
AnalysisOf(symptom_description, clean_description) ==
  LET red_flags == _detect_red_flags(clean_description)
      urgency == _assess_urgency(red_flags)
      response == _generate_response(clean_description, red_flags, urgency)
  IN [ original_input |-> symptom_description,
       cleaned_input |-> clean_description,
       red_flags |-> red_flags,
       urgency_level |-> urgency,
       response |-> response,
       requires_medical_attention |-> RequiresMedicalAttention(urgency) ]

\* the except branch
AnalysisError(e) ==
  [ error |-> "Error analyzing symptoms: " \o e,
    response |-> "Unable to analyze symptoms. Please consult a healthcare professional.",
    requires_medical_attention |-> TRUE ]

\* faulty variant: no try/except, the sanitizer's exception leaves the call
analyze_symptoms_uncaught(symptom_description) ==
  LET clean == sanitize_symptom_input(symptom_description)
  IN IF clean.ok THEN AnalysisOf(symptom_description, clean.value)
     ELSE Raise(clean.error)

analyze_symptoms(symptom_description) ==
  LET clean == sanitize_symptom_input(symptom_description)
  IN IF clean.ok THEN AnalysisOf(symptom_description, clean.value)
     ELSE AnalysisError(clean.error)

(***************************************************************************)
(* analyze_symptoms statement by statement, on an instance `self` whose    *)
(* fields may be shared with other calls.  A call is a record of its       *)
(* argument, its local variables, its position and the steps it has run.   *)
(***************************************************************************)
NewCall(symptom_description) ==
  [ pc |-> "called", symptom_description |-> symptom_description,
    clean_description |-> "", red_flags |-> << >>, urgency |-> "", response |-> "",
    result |-> [called |-> FALSE], steps |-> << >> ]

\* line 40: the sanitizer returns, or raises into the except branch
AfterSanitize(c) ==
  LET r == sanitize_symptom_input(c.symptom_description)
  IN IF r.ok
       THEN [c EXCEPT !.pc = "sanitized", !.clean_description = r.value,
                      !.steps = Append(@, "sanitize")]
       ELSE [c EXCEPT !.pc = "returned", !.result = AnalysisError(r.error),
                      !.steps = Append(@, "sanitize")]

\* faulty variant: the raw description is matched
DetectArgumentRaw(c) == c.symptom_description
\* line 43: the argument of _detect_red_flags
DetectArgument(c) == c.clean_description

AfterDetect(c) ==
  [c EXCEPT !.pc = "detected", !.red_flags = _detect_red_flags(DetectArgument(c)),
            !.steps = Append(@, "detect")]

\* line 46
AfterAssess(c) ==
  [c EXCEPT !.pc = "assessed", !.urgency = _assess_urgency(c.red_flags),
            !.steps = Append(@, "assess")]

\* line 49: _generate_response reads self.emergency_advice
AfterRender(self, c) ==
  [c EXCEPT !.pc = "rendered",
            !.response = Join(UrgencyLinesWith(self.emergency_advice, c.red_flags, c.urgency)
                                \o SummaryLines(c.red_flags) \o DisclaimerLines
                                \o SelfCareLines(c.urgency), "\n"),
            !.steps = Append(@, "render")]

\* faulty variant: the advice that was used is removed from the instance's map
InstanceAfterRenderPop(self, c) ==
  LET hits == {i \in 1..Len(c.red_flags) : c.red_flags[i].category \in DOMAIN self.emergency_advice}
      used == c.red_flags[CHOOSE i \in hits : \A j \in hits : i <= j].category
  IN IF c.urgency = "emergency" /\ hits # {}
       THEN [self EXCEPT !.emergency_advice =
               [k \in DOMAIN self.emergency_advice \ {used} |-> self.emergency_advice[k]]]
       ELSE self

\* the instance after a call has rendered: no statement of the class assigns
\* to self or to its maps after __init__
InstanceAfterRender(self, c) == self

\* lines 51-59
AfterReturn(c) ==
  [c EXCEPT !.pc = "returned",
            !.result = [ original_input |-> c.symptom_description,
                         cleaned_input |-> c.clean_description,
                         red_flags |-> c.red_flags,
                         urgency_level |-> c.urgency,
                         response |-> c.response,
                         requires_medical_attention |-> RequiresMedicalAttention(c.urgency) ]]

\* faulty variant: a rejected call leaves the instance without its advice map
InstanceAfterCallClearing(self, symptom_description) ==
  IF sanitize_symptom_input(symptom_description).ok THEN self
  ELSE [self EXCEPT !.emergency_advice = << >>]

\* one whole call on the instance `self`, run without interruption
CallOn(self, symptom_description) ==
  LET c1 == AfterSanitize(NewCall(symptom_description))
  IN IF c1.pc = "returned" THEN c1
     ELSE AfterReturn(AfterRender(self, AfterAssess(AfterDetect(c1))))

\* ... and the instance it leaves
InstanceAfterCall(self, symptom_description) ==
  LET c1 == AfterSanitize(NewCall(symptom_description))
  IN IF c1.pc = "returned" THEN self
     ELSE InstanceAfterRender(self, AfterAssess(AfterDetect(c1)))

(***************************************************************************)
(* The callers of analyze_symptoms: the /api/symptoms handler, the CLI     *)
(* command check-symptoms and the interactive checker.  A description is   *)
(* [type |-> "str", text |-> t] or a JSON value of another type.           *)
(***************************************************************************)
Str(t) == [type |-> "str", text |-> t]

\* analyze_symptoms for any value: a value that is no str has no strip(), and
\* the AttributeError is caught like any other exception
analyze_symptoms_of(value) ==
  IF value.type = "str" THEN analyze_symptoms(value.text)
  ELSE AnalysisError("'" \o value.type \o "' object has no attribute 'strip'")

\* web_server.check_symptoms; req.kind tells what the request body holds
web_check_symptoms(req) ==
  IF req.kind = "no_json"
    THEN [ status |-> 500, success |-> FALSE,
           message |-> "Error analyzing symptoms: 'NoneType' object has no attribute 'get'" ]
  ELSE LET description == IF req.kind = "no_description" THEN Str("")
                          ELSE IF req.kind = "number" THEN [type |-> "int"]
                          ELSE Str(req.text)
       IN [ status |-> 200, success |-> TRUE, analysis |-> analyze_symptoms_of(description) ]

UpperOf == [i \in 1..Len(LowerLetters) |-> CharAt(UpperLetters, i)]
LowerIndex == [c \in CharsOf(LowerLetters) |-> CHOOSE i \in 1..Len(LowerLetters) : CharAt(LowerLetters, i) = c]
\* str.title() of one word
Title(word) ==
  IF word = "" THEN ""
  ELSE (IF CharAt(word, 1) \in DOMAIN LowerIndex THEN UpperOf[LowerIndex[CharAt(word, 1)]]
        ELSE CharAt(word, 1)) \o Lower(SubSeq(word, 2, Len(word)))

urgency_colors == [emergency |-> "red", urgent |-> "yellow", moderate |-> "blue", low |-> "green"]

\* dict.get(key, default)
Get(dict, key, default) == IF key \in DOMAIN dict THEN dict[key] ELSE default

\* the panel of the CLI command
CliPanel(an) ==
  LET urg == Get(an, "urgency_level", "low")
  IN [ shown |-> "panel",
       body |-> an.response,
       title |-> "Symptom Analysis - " \o Title(urg) \o " Priority",
       border_style |-> Get(urgency_colors, urg, "white") ]

\* faulty variant: the `if "error" in analysis` test left out
CliShowAlwaysPanel(an) == CliPanel(an)

\* what the CLI command prints for an analysis
CliShow(an) ==
  IF "error" \in DOMAIN an THEN [shown |-> "error", text |-> an.error]
  ELSE CliPanel(an)

\* commands.check_symptoms with a description argument
cli_check_symptoms(description) == CliShow(analyze_symptoms(description))

\* SymptomDetector.check_symptoms_interactive, for the line typed at the prompt
check_symptoms_interactive(typed) ==
  LET symptoms == Strip(typed)
      an == analyze_symptoms(symptoms)
  IN IF symptoms = "" THEN [shown |-> "nothing", text |-> "No symptoms entered."]
     ELSE IF "error" \in DOMAIN an THEN [shown |-> "error", text |-> an.error]
     ELSE [ shown |-> "response",
            body |-> an.response,
            logged |-> IF an.requires_medical_attention THEN an.urgency_level ELSE "" ]

(***************************************************************************)
(* Habit tracking: Validators, HabitEntry, StorageManager and              *)
(* HabitTracker.  A number is a record of its Python type and its value;   *)
(* nan marks the float that is not a number.  A datetime is a record of    *)
(* year, month, day and hour.                                              *)
(***************************************************************************)
VALID_HABITS ==
  [ sleep    |-> [units |-> <<"hours">>, min |-> 0, max |-> 24],
    water    |-> [units |-> <<"liters", "cups", "ml">>, min |-> 0, max |-> 10],
    exercise |-> [units |-> <<"minutes", "hours">>, min |-> 0, max |-> 480],
    mood     |-> [units |-> <<"scale">>, min |-> 1, max |-> 10],
    meals    |-> [units |-> <<"count">>, min |-> 0, max |-> 10],
    weight   |-> [units |-> <<"kg", "lbs">>, min |-> 30, max |-> 500],
    steps    |-> [units |-> <<"count">>, min |-> 0, max |-> 50000] ]

IntValue(n) == [type |-> "int", nan |-> FALSE, n |-> n]
NaN == [type |-> "float", nan |-> TRUE, n |-> 0]
StrValue == [type |-> "str", nan |-> FALSE, n |-> 0]

\* Python's value < bound and value > bound: both False for nan
Below(value, bound) == ~value.nan /\ value.n < bound
Above(value, bound) == ~value.nan /\ value.n > bound

\* float(value)
Float(value) == [value EXCEPT !.type = "float"]

validate_habit(habit) ==
  LET name == Strip(Lower(habit))
  IN IF name \notin DOMAIN VALID_HABITS
       THEN Raise("Invalid habit '" \o name \o "'")
       ELSE Ok(name)

validate_value(habit, value) ==
  LET habit_config == VALID_HABITS[habit]
  IN IF value.type \notin {"int", "float"}
       THEN Raise("Value must be a number")
     ELSE IF Below(value, habit_config.min) \/ Above(value, habit_config.max)
       THEN Raise("Value is out of range for " \o habit)
     ELSE Ok(Float(value))

validate_unit(habit, unit) ==
  LET habit_config == VALID_HABITS[habit]
      name == Strip(Lower(unit))
  IN IF name \notin {habit_config.units[k] : k \in 1..Len(habit_config.units)}
       THEN Raise("Invalid unit '" \o name \o "' for " \o habit)
       ELSE Ok(name)

\* the timestamp argument left out
NoTimestamp == [year |-> 0, month |-> 0, day |-> 0, hour |-> 0]

HabitEntry(habit, value, unit, timestamp, notes) ==
  [habit |-> habit, value |-> value, unit |-> unit, timestamp |-> timestamp, notes |-> notes]

\* StorageManager.__init__: an empty table or file
NewStorage(use_sqlite) == [use_sqlite |-> use_sqlite, entries |-> << >>]

\* sqlite3 binds nan as NULL, which the NOT NULL column refuses
_add_entry_sqlite(self, entry) ==
  IF entry.value.nan
    THEN [raised |-> TRUE, storage |-> self]
    ELSE [raised |-> FALSE, storage |-> [self EXCEPT !.entries = Append(@, entry)]]

_add_entry_json(self, entry) ==
  [raised |-> FALSE, storage |-> [self EXCEPT !.entries = Append(@, entry)]]

\* add_habit_entry: the success flag and the store afterwards
add_habit_entry(self, entry) ==
  LET done == IF self.use_sqlite THEN _add_entry_sqlite(self, entry)
              ELSE _add_entry_json(self, entry)
  IN [success |-> ~done.raised, storage |-> done.storage]

\* track_habit on the store `self`, with the clock at `clock`: the value
\* returned and the store afterwards
track_habit(self, clock, habit, value, unit, notes, timestamp) ==
  LET h == validate_habit(habit)
      v == validate_value(h.value, value)
      u == validate_unit(h.value, unit)
      t == IF timestamp = NoTimestamp THEN clock ELSE timestamp
      added == add_habit_entry(self, HabitEntry(h.value, v.value, u.value, t, notes))
  IN IF ~h.ok THEN [returned |-> FALSE, storage |-> self]
     ELSE IF ~v.ok THEN [returned |-> FALSE, storage |-> self]
     ELSE IF ~u.ok THEN [returned |-> FALSE, storage |-> self]
     ELSE [returned |-> added.success, storage |-> added.storage]

IsLeap(year) == (year % 4 = 0 /\ year % 100 # 0) \/ year % 400 = 0

DaysIn(year, month) ==
  IF month = 2 THEN (IF IsLeap(year) THEN 29 ELSE 28)
  ELSE IF month \in {4, 6, 9, 11} THEN 30
  ELSE 31

\* datetime.replace(hour=0, minute=0, second=0, microsecond=0)
Midnight(t) == [t EXCEPT !.hour = 0]

\* datetime.replace(day=day)
ReplaceDay(t, day) ==
  IF day < 1 \/ day > DaysIn(t.year, t.month)
    THEN Raise("day is out of range for month")
    ELSE Ok([t EXCEPT !.day = day])

\* the order of datetimes
TimeKey(t) == ((t.year * 12 + t.month) * 31 + t.day) * 24 + t.hour

\* entries.sort(key=timestamp, reverse=True): newest first, entries of equal
\* timestamp in their stored order
NewestFirst(entries) ==
  LET pos(i) == Cardinality({j \in 1..Len(entries) :
                   \/ TimeKey(entries[j].timestamp) > TimeKey(entries[i].timestamp)
                   \/ TimeKey(entries[j].timestamp) = TimeKey(entries[i].timestamp) /\ j < i}) + 1
  IN [n \in 1..Len(entries) |-> entries[CHOOSE i \in 1..Len(entries) : pos(i) = n]]

\* the default limit of get_recent_entries
RecentLimit == 50

\* get_habit_entries(habit, start_date, limit=limit); limit 0 stands for None
get_habit_entries(self, habit, start_date, limit) ==
  LET wanted(e) == /\ habit # "" => e.habit = habit
                   /\ TimeKey(e.timestamp) >= TimeKey(start_date)
      found == NewestFirst(SelectSeq(self.entries, wanted))
  IN IF limit # 0 /\ Len(found) > limit THEN SubSeq(found, 1, limit) ELSE found

\* the start of the window both queries compute
WindowStart(clock, days) == ReplaceDay(Midnight(clock), clock.day - days + 1)

\* HabitTracker.get_recent_entries(habit, days); habit "" stands for None.  The
\* result carries the start date handed to the store beside the entries.
get_recent_entries(self, clock, habit, days) ==
  LET start_date == WindowStart(clock, days)
  IN IF ~start_date.ok THEN start_date
     ELSE Ok([ start_date |-> start_date.value,
               entries |-> get_habit_entries(self, habit, start_date.value, RecentLimit) ])

RECURSIVE Total(_)
Total(entries) == IF entries = << >> THEN 0 ELSE entries[1].value.n + Total(Tail(entries))

\* StorageManager.get_habit_summary(days); the average is kept as the division
\* the code performs
get_habit_summary(self, clock, days) ==
  LET start_date == WindowStart(clock, days)
      entries == get_habit_entries(self, "", start_date.value, 0)
      of(habit) == LET is(e) == e.habit = habit IN SelectSeq(entries, is)
  IN IF ~start_date.ok THEN start_date
     ELSE Ok([ start_date |-> start_date.value,
               summary |-> [ habit \in {entries[i].habit : i \in 1..Len(entries)} |->
                             [ total |-> Total(of(habit)),
                               count |-> Len(of(habit)),
                               average |-> [dividend |-> Total(of(habit)), divisor |-> Len(of(habit))],
                               unit |-> of(habit)[1].unit,
                               entries |-> of(habit) ] ] ])

(***************************************************************************)
(* The state: one symptom text and what the calls on it returned.          *)
(***************************************************************************)
VARIABLES
  symptom_description,  \* the raw text a caller holds
  sanitized,            \* what sanitize_symptom_input(symptom_description) returned
  resanitized,          \* what sanitize_symptom_input returned for the sanitized text
  analysis,             \* what analyze_symptoms(symptom_description) returned
  analysis_clean,       \* what analyze_symptoms returned for the sanitized text
  red_flags,            \* a match list handed to _assess_urgency
  urgency,              \* what _assess_urgency(red_flags) returned
  detector,             \* the fields of the one shared SymptomDetector instance
  calls,                \* the analyze_symptoms calls in progress, one per thread
  log,                  \* the calls served one after another: input and result
  request,              \* what reaches a caller of the detector
  caller,               \* which caller handles it
  reply,                \* what that caller shows or returns
  storage,              \* the StorageManager: its backend and the entries it holds
  tracked,              \* the track_habit calls made: arguments and returned value
  clock,                \* what datetime.now() gives
  window                \* what the last history query returned

sessionVars == << symptom_description, sanitized, resanitized, analysis, analysis_clean >>
assessVars == << red_flags, urgency >>
detectorVars == << detector, calls, log >>
callerVars == << request, caller, reply >>
habitVars == << storage, tracked, clock, window >>

vars == << symptom_description, sanitized, resanitized, analysis, analysis_clean,
           red_flags, urgency, detector, calls, log, request, caller, reply,
           storage, tracked, clock, window >>

NotCalled == [called |-> FALSE]

\* the instance after __init__
NewDetector ==
  [ red_flag_symptoms |-> RED_FLAG_SYMPTOMS, emergency_advice |-> emergency_advice ]

\* the parts of the state a specification does not use
NoSession ==
  /\ symptom_description = ""
  /\ sanitized = NotCalled
  /\ resanitized = NotCalled
  /\ analysis = NotCalled
  /\ analysis_clean = NotCalled

NoAssess == red_flags = << >> /\ urgency = "none"

NoCalls == detector = NewDetector /\ calls = << >> /\ log = << >>

NoCaller == request = NotCalled /\ caller = "none" /\ reply = NotCalled

NoHabits ==
  /\ storage = NewStorage(TRUE)
  /\ tracked = << >>
  /\ clock = [year |-> 2025, month |-> 1, day |-> 1, hour |-> 0]
  /\ window = NotCalled

\* the pieces the input texts are made of: catalogue phrases of each tier (one
\* in capitals, one with an apostrophe), a text with no phrase, whitespace of
\* two kinds and a character the sanitizer deletes
Fragments ==
  { "Chest Pain", "can't breathe", "severe headache",
    "severe pain", "sudden onset", "worsening",
    "fainting", "ok", " ", "\t", "&" }

RECURSIVE Texts(_)
Texts(n) ==
  IF n = 0 THEN {""}
  ELSE Texts(n - 1) \cup {t \o f : t \in Texts(n - 1), f \in Fragments}

Inputs == Texts(MaxFrags)

\* one match record of every category, as _detect_red_flags builds them
SampleFlags ==
  { [category |-> red_flag_categories[n].category,
     pattern |-> red_flag_categories[n].patterns[1],
     severity |-> "high"] : n \in 1..Len(red_flag_categories) }
    \cup { [category |-> "concerning", pattern |-> concerning_patterns[1], severity |-> "medium"] }

RECURSIVE FlagLists(_)
FlagLists(n) ==
  IF n = 0 THEN { << >> }
  ELSE FlagLists(n - 1) \cup {Append(l, f) : l \in FlagLists(n - 1), f \in SampleFlags}

Init ==
  /\ NoHabits
  /\ symptom_description \in Inputs
  /\ sanitized = NotCalled
  /\ resanitized = NotCalled
  /\ analysis = NotCalled
  /\ analysis_clean = NotCalled
  /\ NoAssess
  /\ NoCalls
  /\ NoCaller

\* a caller runs detector.analyze_symptoms on the raw text
Analyze ==
  /\ analysis = NotCalled
  /\ analysis' = analyze_symptoms(symptom_description)
  /\ UNCHANGED << symptom_description, sanitized, resanitized, analysis_clean, assessVars, detectorVars, callerVars, habitVars >>

\* then runs Validators.sanitize_symptom_input on the raw text itself
SanitizeInput ==
  /\ analysis # NotCalled
  /\ sanitized = NotCalled
  /\ sanitized' = sanitize_symptom_input(symptom_description)
  /\ UNCHANGED << symptom_description, resanitized, analysis, analysis_clean, assessVars, detectorVars, callerVars, habitVars >>

\* ... and once more on the text it returned
SanitizeAgain ==
  /\ sanitized # NotCalled
  /\ sanitized.ok
  /\ resanitized = NotCalled
  /\ resanitized' = sanitize_symptom_input(sanitized.value)
  /\ UNCHANGED << symptom_description, sanitized, analysis, analysis_clean, assessVars, detectorVars, callerVars, habitVars >>

\* ... and hands the sanitized text to detector.analyze_symptoms
AnalyzeSanitized ==
  /\ sanitized # NotCalled
  /\ sanitized.ok
  /\ resanitized # NotCalled
  /\ analysis_clean = NotCalled
  /\ analysis_clean' = analyze_symptoms(sanitized.value)
  /\ UNCHANGED << symptom_description, sanitized, resanitized, analysis, assessVars, detectorVars, callerVars, habitVars >>

Next == Analyze \/ SanitizeInput \/ SanitizeAgain \/ AnalyzeSanitized

Spec == Init /\ [][Next]_vars

(***************************************************************************)
(* The same calls on texts about as long as the sanitizer's upper limit:   *)
(* a run of one letter, with whitespace or deleted characters at the ends.  *)
(***************************************************************************)
RECURSIVE Repeat(_, _)
\* c * n, computed by halves
Repeat(c, n) ==
  IF n = 0 THEN ""
  ELSE IF n = 1 THEN c
  ELSE Repeat(c, n \div 2) \o Repeat(c, n - (n \div 2))

PadChars == {" ", "&"}

LongTexts ==
  { Repeat(lead, i) \o Repeat("a", n) \o Repeat(trail, j) :
      lead \in PadChars, trail \in PadChars, i \in 0..MaxPad, j \in 0..MaxPad,
      n \in (MaxSymptomLen - MaxPad)..(MaxSymptomLen + MaxPad) }

InitLong ==
  /\ NoHabits
  /\ symptom_description \in LongTexts
  /\ sanitized = NotCalled
  /\ resanitized = NotCalled
  /\ analysis = NotCalled
  /\ analysis_clean = NotCalled
  /\ NoAssess
  /\ NoCalls
  /\ NoCaller

\* texts of every length: the short ones and the long ones
InitLengths == Init \/ InitLong

SpecLengths == InitLengths /\ [][Next]_vars

(***************************************************************************)
(* One request handled by one caller of the detector.                      *)
(***************************************************************************)
RequestTexts == Texts(MaxRequestFrags)

WebRequests ==
  { [kind |-> "no_json", text |-> ""], [kind |-> "no_description", text |-> ""],
    [kind |-> "number", text |-> ""] }
    \cup { [kind |-> "text", text |-> t] : t \in RequestTexts }

\* a description given as argument (an empty one makes the command prompt)
CliArguments == { [kind |-> "argument", text |-> t] : t \in RequestTexts \ {""} }

CliPrompts == { [kind |-> "prompt", text |-> t] : t \in RequestTexts }

InitCallers ==
  /\ NoHabits
  /\ NoSession
  /\ NoAssess
  /\ NoCalls
  /\ \/ caller = "web" /\ request \in WebRequests
     \/ caller = "cli" /\ request \in CliArguments \cup CliPrompts
  /\ reply = NotCalled

WebCheckSymptoms ==
  /\ caller = "web"
  /\ reply = NotCalled
  /\ reply' = web_check_symptoms(request)
  /\ UNCHANGED << sessionVars, assessVars, detectorVars, request, caller, habitVars >>

CliCheckSymptoms ==
  /\ caller = "cli"
  /\ request.kind = "argument"
  /\ reply = NotCalled
  /\ reply' = cli_check_symptoms(request.text)
  /\ UNCHANGED << sessionVars, assessVars, detectorVars, request, caller, habitVars >>

CheckSymptomsInteractive ==
  /\ caller = "cli"
  /\ request.kind = "prompt"
  /\ reply = NotCalled
  /\ reply' = check_symptoms_interactive(request.text)
  /\ UNCHANGED << sessionVars, assessVars, detectorVars, request, caller, habitVars >>

NextCallers == WebCheckSymptoms \/ CliCheckSymptoms \/ CheckSymptomsInteractive

SpecCallers == InitCallers /\ [][NextCallers]_vars

(***************************************************************************)
(* Several requests served at once: each thread of the web server runs     *)
(* one analyze_symptoms call on the shared instance, statement by          *)
(* statement, in any interleaving.                                         *)
(***************************************************************************)
\* texts that are rejected, that match nothing, and that match in each tier
CallTexts ==
  { "ok", "ok ok", "mild headache", "Chest Pain", "can't breathe",
    "chest pain and shortness of breath", "severe headache fainting",
    "sudden severe headache", "severe pain & worsening" }

\* the texts of the requests served at once
ThreadTexts ==
  { "ok", "Chest Pain", "can't breathe", "severe headache fainting", "severe pain & worsening" }

Threads == 1..NumThreads

InitThreads ==
  /\ NoHabits
  /\ NoSession
  /\ NoAssess
  /\ NoCaller
  /\ detector = NewDetector
  /\ calls \in [Threads -> {NewCall(x) : x \in ThreadTexts}]
  /\ log = << >>

StepSanitize(t) ==
  /\ calls[t].pc = "called"
  /\ calls' = [calls EXCEPT ![t] = AfterSanitize(@)]
  /\ UNCHANGED << sessionVars, assessVars, callerVars, detector, log, habitVars >>

StepDetect(t) ==
  /\ calls[t].pc = "sanitized"
  /\ calls' = [calls EXCEPT ![t] = AfterDetect(@)]
  /\ UNCHANGED << sessionVars, assessVars, callerVars, detector, log, habitVars >>

StepAssess(t) ==
  /\ calls[t].pc = "detected"
  /\ calls' = [calls EXCEPT ![t] = AfterAssess(@)]
  /\ UNCHANGED << sessionVars, assessVars, callerVars, detector, log, habitVars >>

StepRender(t) ==
  /\ calls[t].pc = "assessed"
  /\ calls' = [calls EXCEPT ![t] = AfterRender(detector, @)]
  /\ detector' = InstanceAfterRender(detector, calls[t])
  /\ UNCHANGED << sessionVars, assessVars, callerVars, log, habitVars >>

StepReturn(t) ==
  /\ calls[t].pc = "rendered"
  /\ calls' = [calls EXCEPT ![t] = AfterReturn(@)]
  /\ UNCHANGED << sessionVars, assessVars, callerVars, detector, log, habitVars >>

NextThreads ==
  \E t \in Threads :
    StepSanitize(t) \/ StepDetect(t) \/ StepAssess(t) \/ StepRender(t) \/ StepReturn(t)

SpecThreads == InitThreads /\ [][NextThreads]_vars

(***************************************************************************)
(* Calls served one after another by the same instance.                    *)
(***************************************************************************)
InitSequence ==
  /\ NoHabits
  /\ NoSession
  /\ NoAssess
  /\ NoCaller
  /\ detector = NewDetector
  /\ calls = << >>
  /\ log = << >>

Serve(x) ==
  /\ Len(log) < MaxCalls
  /\ log' = Append(log, [input |-> x, result |-> CallOn(detector, x).result])
  /\ detector' = InstanceAfterCall(detector, x)
  /\ UNCHANGED << sessionVars, assessVars, callerVars, calls, habitVars >>

NextSequence == \E x \in CallTexts : Serve(x)

SpecSequence == InitSequence /\ [][NextSequence]_vars

(***************************************************************************)
(* _assess_urgency on its own, for any match list.                         *)
(***************************************************************************)
InitAssess ==
  /\ NoHabits
  /\ NoSession
  /\ red_flags \in FlagLists(MaxFlags)
  /\ urgency = "none"
  /\ NoCalls
  /\ NoCaller

AssessUrgency ==
  /\ urgency = "none"
  /\ urgency' = _assess_urgency(red_flags)
  /\ UNCHANGED << sessionVars, red_flags, detectorVars, callerVars, habitVars >>

NextAssess == AssessUrgency

SpecAssess == InitAssess /\ [][NextAssess]_vars

(***************************************************************************)
(* _generate_response on its own, for any match list and urgency level.    *)
(***************************************************************************)
\* match records of an emergency, an urgent and the generic category
RenderFlags ==
  { [category |-> "chest", pattern |-> "chest pain", severity |-> "high"],
    [category |-> "headache", pattern |-> "severe headache", severity |-> "high"],
    [category |-> "concerning", pattern |-> "severe pain", severity |-> "medium"],
    [category |-> "concerning", pattern |-> "sudden onset", severity |-> "medium"] }

RECURSIVE RenderFlagLists(_)
RenderFlagLists(n) ==
  IF n = 0 THEN { << >> }
  ELSE RenderFlagLists(n - 1) \cup {Append(l, f) : l \in RenderFlagLists(n - 1), f \in RenderFlags}

InitRender ==
  /\ NoHabits
  /\ NoSession
  /\ red_flags \in RenderFlagLists(MaxRenderFlags)
  /\ urgency \in {"low", "moderate", "urgent", "emergency"}
  /\ NoCalls
  /\ request = NotCalled
  /\ caller = "none"
  /\ reply = NotCalled

GenerateResponse ==
  /\ reply = NotCalled
  /\ reply' = [response |-> _generate_response("", red_flags, urgency)]
  /\ UNCHANGED << sessionVars, assessVars, detectorVars, request, caller, habitVars >>

NextRender == GenerateResponse

SpecRender == InitRender /\ [][NextRender]_vars

(***************************************************************************)
(* The phrases the program lists, each tried as an input in a few          *)
(* spellings, one call after another on the same instance.                 *)
(***************************************************************************)
\* the patterns _detect_red_flags looks for
AllPatterns ==
  UNION { {red_flag_categories[n].patterns[k] : k \in 1..Len(red_flag_categories[n].patterns)} :
            n \in 1..Len(red_flag_categories) }
    \cup {concerning_patterns[k] : k \in 1..Len(concerning_patterns)}

\* ... and those of Config.RED_FLAG_SYMPTOMS
ListedPhrases == AllPatterns \cup {RED_FLAG_SYMPTOMS[k] : k \in 1..Len(RED_FLAG_SYMPTOMS)}

\* ways a user may type a phrase: alone, capitalised, padded with whitespace,
\* inside a sentence
Spellings(phrase) ==
  << phrase, Title(phrase), "  " \o phrase \o "\n", "I have " \o phrase \o " today!" >>

InitCatalogue ==
  /\ NoHabits
  /\ NoSession
  /\ NoAssess
  /\ NoCalls
  /\ request \in {[phrase |-> p] : p \in ListedPhrases}
  /\ caller = "none"
  /\ reply = NotCalled

AnalyzeSpelling ==
  /\ Len(log) < Len(Spellings(request.phrase))
  /\ LET x == Spellings(request.phrase)[Len(log) + 1]
     IN /\ log' = Append(log, [input |-> x, result |-> CallOn(detector, x).result])
        /\ detector' = InstanceAfterCall(detector, x)
  /\ UNCHANGED << sessionVars, assessVars, callerVars, calls, habitVars >>

NextCatalogue == AnalyzeSpelling

SpecCatalogue == InitCatalogue /\ [][NextCatalogue]_vars

(***************************************************************************)
(* Two related inputs analysed one after the other: a text, then the same  *)
(* text typed differently or with more text around it.                     *)
(***************************************************************************)
RECURSIVE Upper(_)
\* s in capitals
Upper(s) ==
  IF s = "" THEN ""
  ELSE (IF CharAt(s, 1) \in DOMAIN LowerIndex THEN UpperOf[LowerIndex[CharAt(s, 1)]]
        ELSE CharAt(s, 1)) \o Upper(SubSeq(s, 2, Len(s)))

RECURSIVE Widen(_)
\* s with a newline put after each of its whitespace characters
Widen(s) ==
  IF s = "" THEN ""
  ELSE (IF IsSpace(CharAt(s, 1)) THEN CharAt(s, 1) \o "\n" ELSE CharAt(s, 1))
         \o Widen(SubSeq(s, 2, Len(s)))

\* the same text in another letter case, with longer whitespace runs of
\* another kind, with whitespace around it
Respellings(text) ==
  { Lower(text), Upper(text), Widen(text), " " \o text \o "\t", "\n" \o Upper(Widen(text)) }

\* the text with more symptom text before or after it
Extensions(text) ==
  { text \o " and fainting", "severe headache " \o text,
    text \o " sudden onset, worsening severe pain", text \o " ok" }

InitPair ==
  /\ NoHabits
  /\ symptom_description \in RequestTexts
  /\ sanitized = NotCalled
  /\ resanitized = NotCalled
  /\ analysis = NotCalled
  /\ analysis_clean = NotCalled
  /\ NoAssess
  /\ NoCalls
  /\ NoCaller

AnalyzeText ==
  /\ log = << >>
  /\ log' = << [input |-> symptom_description,
                result |-> CallOn(detector, symptom_description).result] >>
  /\ detector' = InstanceAfterCall(detector, symptom_description)
  /\ UNCHANGED << sessionVars, assessVars, callerVars, calls, habitVars >>

AnalyzeRelated(text) ==
  /\ Len(log) = 1
  /\ log' = Append(log, [input |-> text, result |-> CallOn(detector, text).result])
  /\ detector' = InstanceAfterCall(detector, text)
  /\ UNCHANGED << sessionVars, assessVars, callerVars, calls, habitVars >>

AnalyzeRespelled == \E text \in Respellings(symptom_description) : AnalyzeRelated(text)

AnalyzeExtended == \E text \in Extensions(symptom_description) : AnalyzeRelated(text)

NextPair == AnalyzeText \/ AnalyzeRespelled \/ AnalyzeExtended

SpecPair == InitPair /\ [][NextPair]_vars

(***************************************************************************)
(* A tracker over a new store of either backend, and the track_habit       *)
(* calls made on it.                                                       *)
(***************************************************************************)
TrackHabits == {" Sleep ", "mood", "nap"}
TrackValues == {IntValue(8), IntValue(25), NaN, StrValue}
TrackUnits == {" HOURS ", "scale"}
TrackTimestamps == {NoTimestamp, [year |-> 2025, month |-> 3, day |-> 1, hour |-> 0]}

InitHabits ==
  /\ NoSession
  /\ NoAssess
  /\ NoCalls
  /\ NoCaller
  /\ storage \in {NewStorage(use_sqlite) : use_sqlite \in BOOLEAN}
  /\ tracked = << >>
  /\ clock = [year |-> 2025, month |-> 3, day |-> 15, hour |-> 9]
  /\ window = NotCalled

TrackHabit(habit, value, unit, timestamp) ==
  /\ Len(tracked) < MaxTracked
  /\ LET done == track_habit(storage, clock, habit, value, unit, "", timestamp)
     IN /\ storage' = done.storage
        /\ tracked' = Append(tracked, [habit |-> habit, value |-> value, unit |-> unit,
                                       timestamp |-> timestamp, returned |-> done.returned])
  /\ UNCHANGED << sessionVars, assessVars, detectorVars, callerVars, clock, window >>

NextHabits ==
  \E habit \in TrackHabits, value \in TrackValues, unit \in TrackUnits,
     timestamp \in TrackTimestamps :
    TrackHabit(habit, value, unit, timestamp)

SpecHabits == InitHabits /\ [][NextHabits]_vars

(***************************************************************************)
(* The history queries, on any day of a year, over a store that holds a    *)
(* few entries.                                                            *)
(***************************************************************************)
SampleEntries ==
  << HabitEntry("sleep", Float(IntValue(8)), "hours",
                [year |-> 2025, month |-> 2, day |-> 27, hour |-> 7], ""),
     HabitEntry("mood", Float(IntValue(6)), "scale",
                [year |-> 2025, month |-> 3, day |-> 1, hour |-> 21], ""),
     HabitEntry("sleep", Float(IntValue(6)), "hours",
                [year |-> 2025, month |-> 3, day |-> 3, hour |-> 7], "") >>

Today ==
  { [year |-> 2025, month |-> m, day |-> d, hour |-> 9] :
      m \in 1..12, d \in 1..31 } \ { t \in [year : {2025}, month : 1..12, day : 29..31, hour : {9}] :
                                       t.day > DaysIn(t.year, t.month) }

InitHistory ==
  /\ NoSession
  /\ NoAssess
  /\ NoCalls
  /\ NoCaller
  /\ storage \in {[NewStorage(use_sqlite) EXCEPT !.entries = SampleEntries] : use_sqlite \in BOOLEAN}
  /\ tracked = << >>
  /\ clock \in Today
  /\ window = NotCalled

GetRecentEntries(habit, days) ==
  /\ window = NotCalled
  /\ window' = [query |-> "get_recent_entries", days |-> days,
                result |-> get_recent_entries(storage, clock, habit, days)]
  /\ UNCHANGED << sessionVars, assessVars, detectorVars, callerVars, storage, tracked, clock >>

GetHabitSummary(days) ==
  /\ window = NotCalled
  /\ window' = [query |-> "get_habit_summary", days |-> days,
                result |-> get_habit_summary(storage, clock, days)]
  /\ UNCHANGED << sessionVars, assessVars, detectorVars, callerVars, storage, tracked, clock >>

NextHistory ==
  \/ \E habit \in {"", "sleep"}, days \in 1..MaxDays : GetRecentEntries(habit, days)
  \/ \E days \in 1..MaxDays : GetHabitSummary(days)

SpecHistory == InitHistory /\ [][NextHistory]_vars

(***************************************************************************)
(* Properties.  The category tiers and the urgency levels below are        *)
(* written out as the design states them.                                  *)
(***************************************************************************)
EmergencyEligible == {"chest", "breathing", "consciousness", "allergic"}
UrgentEligible == {"headache", "vision", "weakness", "blood", "fever"}
UrgencyLevels == {"low", "moderate", "urgent", "emergency"}

\* the phrases of the emergency-eligible categories
EmergencyPhrases ==
  UNION { {red_flag_categories[n].patterns[k] : k \in 1..Len(red_flag_categories[n].patterns)} :
            n \in {m \in 1..Len(red_flag_categories) :
                     red_flag_categories[m].category \in EmergencyEligible} }

\* text contains phrase p, letter case ignored
MentionsPhrase(text, p) == Contains(Lower(text), p)

\* analyze_symptoms has returned a complete result for the raw text
Analyzed == analysis # NotCalled /\ "urgency_level" \in DOMAIN analysis

Categories(flags) == {flags[i].category : i \in 1..Len(flags)}

\* C1: every accepted raw input that contains, letter case ignored, a phrase of
\* an emergency-eligible category is analysed as urgency 'emergency', whatever
\* other phrases it contains.
C1_EmergencyPhraseGivesEmergency ==
  (Analyzed /\ \E p \in EmergencyPhrases : MentionsPhrase(symptom_description, p))
    => analysis.urgency_level = "emergency"

\* C2: a match list with at least one match of an emergency-eligible category
\* is assessed 'emergency', whatever the number, categories and order of its
\* other matches.
C2_EmergencyMatchDominates ==
  (urgency # "none" /\ Categories(red_flags) \cap EmergencyEligible # {})
    => urgency = "emergency"

\* an emergency match that comes last, after an urgent and a generic match
C2_Witness ==
  /\ urgency = "emergency"
  /\ Len(red_flags) = 3
  /\ red_flags[1].category = "headache"
  /\ red_flags[2].category = "concerning"
  /\ red_flags[3].category = "chest"

\* C3: a match list with no match of an emergency-eligible category and at
\* least one match of an urgent-eligible category is assessed 'urgent',
\* whatever its length (a single match included).
C3_UrgentMatchGivesUrgent ==
  (/\ urgency # "none"
   /\ Categories(red_flags) \cap EmergencyEligible = {}
   /\ Categories(red_flags) \cap UrgentEligible # {})
    => urgency = "urgent"

\* a single fever match
C3_Witness ==
  /\ urgency = "urgent"
  /\ Len(red_flags) = 1
  /\ red_flags[1].category = "fever"

\* C4: an accepted input whose analysis yields 3 or more matches, none of a
\* named (emergency- or urgent-eligible) category, has urgency 'urgent'.
C4_ThreeGenericGiveUrgent ==
  (/\ Analyzed
   /\ Len(analysis.red_flags) >= 3
   /\ Categories(analysis.red_flags) \cap (EmergencyEligible \cup UrgentEligible) = {})
    => analysis.urgency_level = "urgent"

C4_Witness ==
  /\ Analyzed
  /\ Len(analysis.red_flags) = 3
  /\ Categories(analysis.red_flags) = {"concerning"}
  /\ analysis.urgency_level = "urgent"

\* C5: an accepted input whose analysis yields exactly 1 or exactly 2 matches,
\* all generic, has urgency 'moderate' and does not require medical attention.
C5_OneOrTwoGenericGiveModerate ==
  (/\ Analyzed
   /\ Len(analysis.red_flags) \in {1, 2}
   /\ Categories(analysis.red_flags) \cap (EmergencyEligible \cup UrgentEligible) = {})
    => (analysis.urgency_level = "moderate" /\ ~analysis.requires_medical_attention)

C5_Witness ==
  /\ Analyzed
  /\ Len(analysis.red_flags) = 2
  /\ Categories(analysis.red_flags) = {"concerning"}
  /\ analysis.urgency_level = "moderate"
  /\ ~analysis.requires_medical_attention

\* C6: an input whose analysis yields zero matches has urgency 'low' and does
\* not require medical attention.
C6_NoMatchGivesLow ==
  (Analyzed /\ analysis.red_flags = << >>)
    => (analysis.urgency_level = "low" /\ ~analysis.requires_medical_attention)

C6_Witness ==
  /\ Analyzed
  /\ analysis.red_flags = << >>
  /\ analysis.urgency_level = "low"
  /\ ~analysis.requires_medical_attention

\* C7: in every result that carries an urgency_level, requires_medical_attention
\* is true exactly when the level is 'urgent' or 'emergency', and the level is
\* one of low, moderate, urgent, emergency.
C7_AttentionIffUrgentOrEmergency ==
  Analyzed =>
    /\ analysis.urgency_level \in UrgencyLevels
    /\ analysis.requires_medical_attention <=> analysis.urgency_level \in {"urgent", "emergency"}

\* an 'urgent' result, which requires attention without being an emergency
C7_Witness ==
  /\ Analyzed
  /\ analysis.urgency_level = "urgent"
  /\ analysis.requires_medical_attention

\* C8: sanitization is idempotent: sanitizing an accepted input's sanitized
\* text succeeds and returns that text unchanged.
C8_SanitizeIdempotent ==
  resanitized # NotCalled => (resanitized.ok /\ resanitized.value = sanitized.value)

\* C9: the analysis of an accepted input's sanitized text has the same matches,
\* urgency, attention flag and response as the analysis of the input itself.
C9_AnalysisSameAfterSanitize ==
  analysis_clean # NotCalled =>
    /\ Analyzed
    /\ "urgency_level" \in DOMAIN analysis_clean
    /\ analysis_clean.red_flags = analysis.red_flags
    /\ analysis_clean.urgency_level = analysis.urgency_level
    /\ analysis_clean.requires_medical_attention = analysis.requires_medical_attention
    /\ analysis_clean.response = analysis.response

\* C10: every text the sanitizer returns is lowercase, has no whitespace at
\* either end and no two whitespace characters in a row, and holds only word
\* characters, single spaces and - . , ! ?
C10_SanitizedTextIsNormalized ==
  (sanitized # NotCalled /\ sanitized.ok) =>
    LET t == sanitized.value IN
    /\ Lower(t) = t
    /\ Strip(t) = t
    /\ \A i \in 1..(Len(t) - 1) : ~(IsSpace(CharAt(t, i)) /\ IsSpace(CharAt(t, i + 1)))
    /\ \A i \in 1..Len(t) : CharAt(t, i) \in WordChars \cup {" ", "-", ".", ",", "!", "?"}

\* C11: sanitize_symptom_input fails for every input whose raw length exceeds
\* 500 characters, whatever the length of the text left after cleaning.
C11_LongRawInputRejected ==
  (sanitized # NotCalled /\ Len(symptom_description) > 500) => ~sanitized.ok

\* C12: on the too-short side sanitize_symptom_input fails exactly when the
\* cleaned text (stripped, whitespace collapsed, characters deleted) has fewer
\* than 3 characters: lengths 0, 1 and 2 are rejected, length 3 is accepted.
C12_TooShortIffCleanedBelowThree ==
  sanitized # NotCalled =>
    ((~sanitized.ok /\ sanitized.error = "Symptom description must be at least 3 characters")
       <=> Len(CleanSymptom(symptom_description)) < 3)

\* a rejected text whose cleaned form has 2 characters, from a longer raw text
C12_Witness ==
  /\ sanitized # NotCalled
  /\ ~sanitized.ok
  /\ Len(CleanSymptom(symptom_description)) = 2
  /\ Len(symptom_description) > 2

\* what the sanitizer does with the raw text of the session
Sanitizing == sanitize_symptom_input(symptom_description)

\* C13, as claimed: when sanitization of the input fails, analyze_symptoms
\* fails with the same ValidationError, raised to its caller, and returns
\* nothing.
C13_SanitizeFailureIsRaised ==
  (analysis # NotCalled /\ ~Sanitizing.ok) => analysis = Raise(Sanitizing.error)

\* C13, amended: when sanitization of the input fails, analyze_symptoms raises
\* nothing; it returns an error result that carries the ValidationError's
\* message, the fixed "unable to analyze" response and
\* requires_medical_attention = true, and no matches, urgency or cleaned text.
C13_SanitizeFailureIsReturned ==
  (analysis # NotCalled /\ ~Sanitizing.ok) =>
    analysis = [ error |-> "Error analyzing symptoms: " \o Sanitizing.error,
                 response |-> "Unable to analyze symptoms. Please consult a healthcare professional.",
                 requires_medical_attention |-> TRUE ]

\* the 2-character input "ok" has been analysed
C13_Witness ==
  /\ symptom_description = "ok"
  /\ analysis # NotCalled
  /\ "error" \in DOMAIN analysis

\* C15: analyze_symptoms returns a complete result, with no error, for every
\* text whose cleaned length is within the sanitizer's bounds (3 to 500), and
\* reports a failure only for texts outside them.
C15_FailsOnlyOutsideLengthBounds ==
  analysis # NotCalled =>
    LET n == Len(CleanSymptom(symptom_description))
    IN IF 3 <= n /\ n <= 500
         THEN /\ {"red_flags", "urgency_level", "requires_medical_attention", "response"}
                   \subseteq DOMAIN analysis
              /\ "error" \notin DOMAIN analysis
         ELSE "error" \in DOMAIN analysis

\* a text of exactly 500 cleaned characters, analysed completely
C15_Witness ==
  /\ Analyzed
  /\ Len(analysis.cleaned_input) = 500

\* the description a caller hands to analyze_symptoms, when it calls it
Handed ==
  IF caller = "web"
    THEN (IF request.kind = "text" THEN Str(request.text)
          ELSE IF request.kind = "number" THEN [type |-> "int"]
          ELSE Str(""))
  ELSE IF request.kind = "prompt" THEN Str(Strip(request.text))
  ELSE Str(request.text)

\* the caller has answered and has called analyze_symptoms to do so
Answered ==
  /\ reply # NotCalled
  /\ ~(caller = "web" /\ request.kind = "no_json")
  /\ ~(caller = "cli" /\ request.kind = "prompt" /\ Strip(request.text) = "")

\* the reply tells its reader an urgency level
TellsUrgency(r) ==
  \/ "analysis" \in DOMAIN r /\ "urgency_level" \in DOMAIN r.analysis
  \/ "shown" \in DOMAIN r /\ r.shown \in {"panel", "response"}

\* C14: every outcome of analyze_symptoms for an input it could not analyse
\* (rejected by the sanitizer, or an internal fault) has
\* requires_medical_attention = true and no urgency 'low', and neither the CLI
\* nor the /api/symptoms handler turns it into a low-urgency result.
C14_FailClosed ==
  (Answered /\ "error" \in DOMAIN analyze_symptoms_of(Handed)) =>
    LET an == analyze_symptoms_of(Handed)
    IN /\ an.requires_medical_attention
       /\ "urgency_level" \notin DOMAIN an
       /\ ~TellsUrgency(reply)
       /\ caller = "web" => (reply.analysis = an /\ reply.analysis.requires_medical_attention)
       /\ caller = "cli" => reply = [shown |-> "error", text |-> an.error]

\* the CLI command was given the rejected description "ok"
C14_Witness ==
  /\ caller = "cli"
  /\ request = [kind |-> "argument", text |-> "ok"]
  /\ reply # NotCalled
  /\ reply.shown = "error"

(***************************************************************************)
(* Calls on the shared instance.                                           *)
(***************************************************************************)
Returned(c) == c.pc = "returned"
Succeeded(result) == "urgency_level" \in DOMAIN result
Served == log # << >>
LastServed == log[Len(log)]

\* C16: however the steps of the calls in flight are interleaved, a call that
\* has returned has returned exactly what analyze_symptoms gives for its
\* description when run alone (matches, urgency, attention flag, response).
C16_ConcurrentCallsDoNotInterfere ==
  \A t \in DOMAIN calls :
    Returned(calls[t]) => calls[t].result = analyze_symptoms(calls[t].symptom_description)

\* a call has returned an emergency analysis while another call is suspended
\* between its matching and its rendering
C16_Witness ==
  /\ DOMAIN calls = Threads
  /\ \E t, u \in Threads :
       /\ t # u
       /\ Returned(calls[t])
       /\ Succeeded(calls[t].result)
       /\ calls[t].result.urgency_level = "emergency"
       /\ calls[u].pc = "assessed"
       /\ calls[u].urgency = "emergency"

\* C17: after any sequence of calls, rejected ones included, the instance is
\* as __init__ left it and every call has returned what a call on a fresh
\* instance returns for its text.
C17_CallsLeaveDetectorUnchanged ==
  /\ detector = NewDetector
  /\ \A i \in DOMAIN log : log[i].result = analyze_symptoms(log[i].input)

\* a rejected call was followed by a call that found an emergency
C17_Witness ==
  /\ Len(log) >= 2
  /\ "error" \in DOMAIN log[1].result
  /\ Succeeded(log[2].result)
  /\ log[2].result.urgency_level = "emergency"

\* the catalogue in scan order: the category phrases, then the generic ones
CataloguePhrases ==
  { [category |-> red_flag_categories[n].category,
     pattern |-> red_flag_categories[n].patterns[k],
     severity |-> "high",
     rank |-> << n, k >>] :
      << n, k >> \in { p \in (1..Len(red_flag_categories)) \X (1..5) :
                       p[2] <= Len(red_flag_categories[p[1]].patterns) } }
  \cup
  { [category |-> "concerning", pattern |-> concerning_patterns[k], severity |-> "medium",
     rank |-> << Len(red_flag_categories) + 1, k >>] : k \in 1..Len(concerning_patterns) }

PhraseOf(flag) ==
  CHOOSE p \in CataloguePhrases : p.category = flag.category /\ p.pattern = flag.pattern

Before(r1, r2) == r1[1] < r2[1] \/ (r1[1] = r2[1] /\ r1[2] < r2[2])

\* C18: the matches of a served call are one record for each catalogue phrase
\* that is a substring of the cleaned text, none for any other phrase, in
\* catalogue scan order.
C18_EveryPhraseFoundOnceInScanOrder ==
  Served /\ Succeeded(LastServed.result) =>
    LET text  == LastServed.result.cleaned_input
        flags == LastServed.result.red_flags
    IN /\ \A i \in 1..Len(flags) :
            /\ \E p \in CataloguePhrases :
                 p.category = flags[i].category /\ p.pattern = flags[i].pattern
                   /\ p.severity = flags[i].severity
            /\ Contains(text, flags[i].pattern)
       /\ \A p \in CataloguePhrases :
            Contains(text, p.pattern) =>
              Cardinality({i \in 1..Len(flags) :
                             flags[i].category = p.category /\ flags[i].pattern = p.pattern}) = 1
       /\ \A i, j \in 1..Len(flags) :
            i < j => Before(PhraseOf(flags[i]).rank, PhraseOf(flags[j]).rank)

\* a served text holds two phrases of one pattern list, and both were recorded
C18_Witness ==
  /\ Served
  /\ Succeeded(LastServed.result)
  /\ \E i, j \in 1..Len(LastServed.result.red_flags) :
       /\ i < j
       /\ LastServed.result.red_flags[i].category = LastServed.result.red_flags[j].category

\* the lines of a rendered response that are an entry of the advice map
Cuts(s) == {0} \cup {i \in 1..Len(s) : CharAt(s, i) = "\n"} \cup {Len(s) + 1}
LineFrom(s, a) ==
  LET b == CHOOSE x \in Cuts(s) : x > a /\ \A y \in Cuts(s) : y > a => x <= y
  IN SubSeq(s, a + 1, b - 1)
AdviceTexts == {emergency_advice[k] : k \in DOMAIN emergency_advice}
AdviceLines(s) == {a \in Cuts(s) \ {Len(s) + 1} : LineFrom(s, a) \in AdviceTexts}

FirstAdvisedCategory(flags) ==
  LET hits == {i \in 1..Len(flags) : flags[i].category \in DOMAIN emergency_advice}
  IN flags[CHOOSE i \in hits : \A j \in hits : i <= j].category

\* C19: an emergency response holds exactly one category-specific instruction,
\* that of the first match whose category has one; any other response holds none.
C19_OneInstructionOfFirstMatch ==
  Served /\ Succeeded(LastServed.result) =>
    LET r == LastServed.result
    IN IF r.urgency_level = "emergency"
         THEN /\ Cardinality(AdviceLines(r.response)) = 1
              /\ \A a \in AdviceLines(r.response) :
                   LineFrom(r.response, a) = emergency_advice[FirstAdvisedCategory(r.red_flags)]
         ELSE AdviceLines(r.response) = {}

\* a text matching chest and breathing was answered with the chest instruction
C19_Witness ==
  /\ Served
  /\ Succeeded(LastServed.result)
  /\ {"chest", "breathing"} \subseteq Categories(LastServed.result.red_flags)
  /\ Contains(LastServed.result.response, emergency_advice["chest"])

PipelineSteps == << "sanitize", "detect", "assess", "render" >>
StepsOf(c) == {c.steps[i] : i \in 1..Len(c.steps)}

\* C20: the steps a call has run are an initial part of sanitize, detect,
\* assess, render; the matches are those of the sanitized text; a call whose
\* text the sanitizer rejects runs no step but the sanitizer.
C20_SanitizeBeforeMatching ==
  \A t \in DOMAIN calls :
    LET c == calls[t]
        r == sanitize_symptom_input(c.symptom_description)
    IN /\ Len(c.steps) <= Len(PipelineSteps)
       /\ c.steps = SubSeq(PipelineSteps, 1, Len(c.steps))
       /\ "detect" \in StepsOf(c) =>
            /\ r.ok
            /\ c.red_flags = _detect_red_flags(r.value)
       /\ ~r.ok => StepsOf(c) \subseteq {"sanitize"}

\* the call for "ok" has returned after the sanitizer alone, and another call
\* has matched a text that the sanitizer changed
C20_Witness ==
  /\ DOMAIN calls = Threads
  /\ \E t, u \in Threads :
       /\ calls[t].symptom_description = "ok"
       /\ Returned(calls[t])
       /\ calls[t].steps = << "sanitize" >>
       /\ "detect" \in StepsOf(calls[u])
       /\ calls[u].clean_description # calls[u].symptom_description

(***************************************************************************)
(* The sections of a rendered response.                                    *)
(***************************************************************************)
\* the lines of s, in order
LinesOf(s) ==
  LET cuts == Cuts(s)
      starts == cuts \ {Len(s) + 1}
      nth(k) == CHOOSE a \in starts : Cardinality({b \in starts : b < a}) = k - 1
  IN [k \in 1..Cardinality(starts) |-> LineFrom(s, nth(k))]

IndexOf(lines, line) == {i \in 1..Len(lines) : lines[i] = line}
IsBullet(line) == Len(line) >= 2 /\ SubSeq(line, 1, 2) = "* "

\* the bullet lines that follow line h without interruption
BulletsAfter(lines, h) ==
  LET ends == {k \in h..Len(lines) : \A j \in (h + 1)..k : IsBullet(lines[j])}
      last == CHOOSE k \in ends : \A m \in ends : m <= k
  IN SubSeq(lines, h + 1, last)

Rendered == reply # NotCalled /\ "response" \in DOMAIN reply
SymptomsHeading == "Detected concerning symptoms:"
TipsHeading == "General self-care tips:"
Tips == << "* Stay hydrated", "* Get adequate rest", "* Monitor symptoms", "* Keep a symptom diary" >>
Min(a, b) == IF a < b THEN a ELSE b

\* C22: the response has a detected-symptoms list exactly when there are
\* matches, and the list is the patterns of the first min(3, n) matches in
\* match order, repeated patterns included.
C22_ListShowsFirstThreeMatches ==
  Rendered =>
    LET lines == LinesOf(reply.response)
        heads == IndexOf(lines, SymptomsHeading)
    IN /\ (heads # {}) <=> (red_flags # << >>)
       /\ Cardinality(heads) <= 1
       /\ \A h \in heads :
            BulletsAfter(lines, h) =
              [i \in 1..Min(3, Len(red_flags)) |-> "* " \o red_flags[i].pattern]

\* a list of four matches, the first two alike, was rendered
C22_Witness ==
  /\ Rendered
  /\ Len(red_flags) = 4
  /\ red_flags[1] = red_flags[2]
  /\ red_flags[4] # red_flags[1]

Banner ==
  [ emergency |-> "MEDICAL EMERGENCY DETECTED",
    urgent |-> "URGENT MEDICAL ATTENTION NEEDED",
    moderate |-> "Medical Consultation Recommended",
    low |-> "General Wellness Information" ]

Directive ==
  [ emergency |-> "This appears to be a medical emergency. Call 911 or emergency services IMMEDIATELY.",
    urgent |-> "These symptoms require prompt medical evaluation. Contact your doctor or visit urgent care immediately.",
    moderate |-> "Consider scheduling an appointment with your healthcare provider to discuss these symptoms.",
    low |-> "While these symptoms may not be immediately concerning, monitor them and consult a healthcare professional if they persist or worsen." ]

\* C23: every response holds the disclaimer exactly once; it starts with the
\* banner and the directive of its urgency level, the detected-symptoms list
\* (if any) comes next, then the disclaimer, then the self-care tips (if any).
C23_DisclaimerOnceSectionsInOrder ==
  Rendered =>
    LET lines == LinesOf(reply.response)
        heads == IndexOf(lines, SymptomsHeading)
        discl == IndexOf(lines, MEDICAL_DISCLAIMER)
        tips  == IndexOf(lines, TipsHeading)
    IN /\ Cardinality(discl) = 1
       /\ lines[1] = Banner[urgency]
       /\ lines[2] = Directive[urgency]
       /\ \A h \in heads : 2 < h /\ \A d \in discl : h + Len(BulletsAfter(lines, h)) < d
       /\ \A d \in discl : 2 < d /\ \A t \in tips : d < t

\* a response with all four sections was rendered
C23_Witness ==
  /\ Rendered
  /\ urgency = "moderate"
  /\ red_flags # << >>
  /\ Contains(reply.response, SymptomsHeading)
  /\ Contains(reply.response, TipsHeading)

\* C24: the response holds the self-care tip list exactly when the urgency is
\* low or moderate.
C24_TipsIffLowOrModerate ==
  Rendered =>
    LET lines == LinesOf(reply.response)
        tips  == IndexOf(lines, TipsHeading)
    IN IF urgency \in {"low", "moderate"}
         THEN /\ Cardinality(tips) = 1
              /\ \A t \in tips : BulletsAfter(lines, t) = Tips
         ELSE /\ tips = {}
              /\ \A i \in 1..Len(lines) : \A k \in 1..Len(Tips) : lines[i] # Tips[k]

\* an urgent response was rendered, and it has no tips
C24_Witness ==
  /\ Rendered
  /\ urgency = "urgent"
  /\ ~Contains(reply.response, TipsHeading)

(***************************************************************************)
(* The listed phrases as inputs.                                           *)
(***************************************************************************)
Reports(result, phrase) ==
  /\ Succeeded(result)
  /\ \E i \in 1..Len(result.red_flags) : result.red_flags[i].pattern = phrase

AllSpellingsTried == "phrase" \in DOMAIN request /\ Len(log) = Len(Spellings(request.phrase))

\* C25: for every pattern of the catalogue, some spelling of it is accepted
\* and analysed with a match for that pattern.
C25_EveryPatternDetectable ==
  AllSpellingsTried /\ request.phrase \in AllPatterns =>
    \E i \in 1..Len(log) : Reports(log[i].result, request.phrase)

\* C26: the category-specific instruction of an emergency response is that of
\* an emergency-eligible category among the matches.
C26_EmergencyInstructionOfEmergencyCategory ==
  Served /\ Succeeded(LastServed.result) /\ LastServed.result.urgency_level = "emergency" =>
    \A a \in AdviceLines(LastServed.result.response) :
      \E k \in EmergencyEligible \cap Categories(LastServed.result.red_flags) :
        LineFrom(LastServed.result.response, a) = emergency_advice[k]

\* C27: a phrase of Config.RED_FLAG_SYMPTOMS given as the input is analysed
\* with at least one match and requires_medical_attention = TRUE.
C27_ListedRedFlagIsFlagged ==
  /\ Served
  /\ "phrase" \in DOMAIN request
  /\ request.phrase \in {RED_FLAG_SYMPTOMS[k] : k \in 1..Len(RED_FLAG_SYMPTOMS)}
  => /\ log[1].input = request.phrase
     /\ Succeeded(log[1].result)
     /\ log[1].result.red_flags # << >>
     /\ log[1].result.requires_medical_attention

(***************************************************************************)
(* Relations between the analyses of two inputs.                           *)
(***************************************************************************)
\* the words of a text (its maximal runs of non-whitespace) in lower case, in order
WordsOf(text) ==
  LET black(i) == i \in 1..Len(text) /\ CharAt(text, i) \notin {" ", "\t", "\n"}
      starts == {i \in 1..Len(text) : black(i) /\ ~black(i - 1)}
      endOf(i) == CHOOSE k \in i..Len(text) : (\A j \in i..k : black(j)) /\ ~black(k + 1)
      nth(n) == CHOOSE i \in starts : Cardinality({j \in starts : j < i}) = n - 1
  IN [n \in 1..Cardinality(starts) |-> Lower(SubSeq(text, nth(n), endOf(nth(n))))]

\* x and y differ at most in letter case and in whitespace layout
SameButCaseAndWhitespace(x, y) == WordsOf(x) = WordsOf(y)

PairAnalysed == Len(log) = 2
Rank == [low |-> 0, moderate |-> 1, urgent |-> 2, emergency |-> 3]
FlagSet(flags) == {flags[i] : i \in 1..Len(flags)}

\* C21: two inputs that differ only in letter case and in whitespace (run
\* length, kind, leading or trailing) are both rejected, or both analysed with
\* the same matches, urgency, attention flag and response.
C21_CaseAndWhitespaceIgnored ==
  PairAnalysed /\ SameButCaseAndWhitespace(log[1].input, log[2].input) =>
    \/ ~Succeeded(log[1].result) /\ ~Succeeded(log[2].result)
    \/ /\ Succeeded(log[1].result)
       /\ Succeeded(log[2].result)
       /\ log[1].result.red_flags = log[2].result.red_flags
       /\ log[1].result.urgency_level = log[2].result.urgency_level
       /\ log[1].result.requires_medical_attention = log[2].result.requires_medical_attention
       /\ log[1].result.response = log[2].result.response

\* a text with a match was analysed, then the same text spelled differently
C21_Witness ==
  /\ PairAnalysed
  /\ log[1].input # log[2].input
  /\ SameButCaseAndWhitespace(log[1].input, log[2].input)
  /\ Succeeded(log[1].result)
  /\ log[1].result.red_flags # << >>
  /\ Contains(log[2].input, "\n")

\* C28: when the cleaned text of one accepted input is a substring of that of
\* another, the second has every match of the first, an urgency at least as
\* high, and requires attention if the first does.
C28_MoreTextNeverLowersUrgency ==
  PairAnalysed =>
    \A i, j \in 1..2 :
      /\ Succeeded(log[i].result)
      /\ Succeeded(log[j].result)
      /\ Contains(log[j].result.cleaned_input, log[i].result.cleaned_input)
      => /\ FlagSet(log[i].result.red_flags) \subseteq FlagSet(log[j].result.red_flags)
         /\ Rank[log[i].result.urgency_level] <= Rank[log[j].result.urgency_level]
         /\ log[i].result.requires_medical_attention => log[j].result.requires_medical_attention

\* an emergency text was extended with generic phrases, which became its last
\* matches
C28_Witness ==
  /\ PairAnalysed
  /\ Succeeded(log[1].result)
  /\ Succeeded(log[2].result)
  /\ log[1].result.urgency_level = "emergency"
  /\ Contains(log[2].result.cleaned_input, log[1].result.cleaned_input)
  /\ Len(log[2].result.red_flags) > Len(log[1].result.red_flags)
  /\ log[2].result.red_flags[Len(log[2].result.red_flags)].category = "concerning"

(***************************************************************************)
(* Habit tracking.  What makes a call valid is written out as the          *)
(* validation rules state it.                                              *)
(***************************************************************************)
KnownHabit(name) == name \in {"sleep", "water", "exercise", "mood", "meals", "weight", "steps"}
Range == [ sleep |-> << 0, 24 >>, water |-> << 0, 10 >>, exercise |-> << 0, 480 >>,
           mood |-> << 1, 10 >>, meals |-> << 0, 10 >>, weight |-> << 30, 500 >>,
           steps |-> << 0, 50000 >> ]
Units == [ sleep |-> {"hours"}, water |-> {"liters", "cups", "ml"},
           exercise |-> {"minutes", "hours"}, mood |-> {"scale"}, meals |-> {"count"},
           weight |-> {"kg", "lbs"}, steps |-> {"count"} ]
InRange(value, habit) ==
  /\ value.type \in {"int", "float"}
  /\ ~value.nan
  /\ Range[habit][1] <= value.n
  /\ value.n <= Range[habit][2]

\* the arguments of a call pass validation
PassesValidation(call) ==
  LET habit == Strip(Lower(call.habit))
  IN /\ KnownHabit(habit)
     /\ InRange(call.value, habit)
     /\ Strip(Lower(call.unit)) \in Units[habit]

\* C29: the store holds one entry for each call that returned True, in call
\* order; a call whose arguments do not pass validation returned False; every
\* stored entry has a known habit, an in-range value and an allowed unit.
C29_StoreHoldsExactlyTheValidCalls ==
  LET kept == {i \in 1..Len(tracked) : tracked[i].returned}
  IN /\ Len(storage.entries) = Cardinality(kept)
     /\ \A i \in 1..Len(tracked) : ~PassesValidation(tracked[i]) => ~tracked[i].returned
     /\ \A k \in 1..Len(storage.entries) :
          /\ KnownHabit(storage.entries[k].habit)
          /\ InRange(storage.entries[k].value, storage.entries[k].habit)
          /\ storage.entries[k].unit \in Units[storage.entries[k].habit]

Asked == window # NotCalled

RECURSIVE DaysBefore(_, _)
\* the calendar day n days before t, at midnight
DaysBefore(t, n) ==
  IF n = 0 THEN [t EXCEPT !.hour = 0]
  ELSE IF t.day > 1 THEN DaysBefore([t EXCEPT !.day = @ - 1], n - 1)
  ELSE IF t.month > 1
    THEN DaysBefore([t EXCEPT !.month = @ - 1, !.day = DaysIn(t.year, t.month - 1)], n - 1)
  ELSE DaysBefore([t EXCEPT !.year = @ - 1, !.month = 12, !.day = 31], n - 1)

\* C30: on every day and for every window length days >= 1, both history
\* queries complete and start their window at midnight of the day that lies
\* days - 1 days before today.
C30_WindowStartsDaysMinusOneBefore ==
  Asked =>
    /\ window.result.ok
    /\ window.result.value.start_date = DaysBefore(clock, window.days - 1)

====
